---- MODULE Spec2Model ----
(***************************************************************************)
(* State-machine model of the Sonos volume controller.                     *)
(*                                                                         *)
(* Two variants of the controller script exist: the main controller        *)
(* (src/sonos_volume_controller.py) and the prototype with a preferences   *)
(* window and a default speaker                                            *)
(* (src/python-prototype/sonos_volume_controller.py).  The variable        *)
(* `variant` says which of the two is running.                             *)
(*                                                                         *)
(* Execution contexts, one position variable each:                         *)
(*   - the hotkey listener thread (key_pc): on_activate_volume_up/down,    *)
(*     should_intercept, change_volume;                                    *)
(*   - the main (UI) thread (ui_pc): toggle_enabled, select_sonos,         *)
(*     trigger-device change, refresh_sonos_devices;                       *)
(*   - the monitor thread: one poll tick of monitor_audio_device;          *)
(*   - one background thread per discovery (disc[i].pc): discover_devices. *)
(* The key listeners of src/media_key_tap.py and                           *)
(* src/volume_key_listener.py are modelled on their own (tap).             *)
(* One action is one statement (or a run of statements touching no state   *)
(* another context reads) of the handler it belongs to.                    *)
(***************************************************************************)
EXTENDS Integers, Sequences, FiniteSets, TLC

VARIABLES
    variant,                \* "main" | "proto": which script runs
    enabled,                \* self.enabled
    trigger_device,         \* self.trigger_device
    current_device,         \* self.current_device
    notifications,          \* notifications posted by the monitor and hotkey threads
    selected_sonos,         \* self.selected_sonos: None or a speaker
    sonos_devices,          \* self.sonos_devices: list of speakers
    last_selected_speaker,  \* self.last_selected_speaker
    default_sonos_speaker,  \* self.default_sonos_speaker (prototype)
    defaults,               \* NSUserDefaults: the persisted settings
    volume_step,            \* self.volume_step
    current_volume,         \* self.current_volume: cached volume
    volume_item,            \* self.volume_item.title: the volume displayed
    speaker_volume,         \* the speakers' own volume, by speaker
    speaker_mute,           \* the speakers' own mute flag, by speaker
    menu,                   \* speaker menu items: name -> check state
    key_pc,                 \* position of the hotkey handler
    key_delta,              \* change_volume's delta
    key_read,               \* change_volume's local current_volume
    key_new,                \* change_volume's local new_volume
    key_mute,               \* toggle_mute's local current_mute
    key_speaker,            \* the speaker change_volume last wrote to
    key_outcome,            \* branch the last key event took
    nkeys,                  \* key events delivered so far
    ui_pc,                  \* position of the main thread inside select_sonos
    ui_dev,                 \* select_sonos's device argument
    nselect,                \* speaker menu items clicked so far
    disc,                   \* discovery threads: index -> [pc, result, target]
    tap,                    \* the last event a key listener handled
    app_running,            \* the process runs (app.run() has not returned)
    monitor_stop_event,     \* self.monitor_stop_event.is_set()
    hotkey_listener,        \* the GlobalHotKeys listeners started and running
    press,                  \* the last physical key press and the callbacks
                            \* it invoked
    key_log                 \* history: key events dispatched and speaker
                            \* writes made, in order, where recorded

vars == <<variant, enabled, trigger_device, current_device, notifications,
          selected_sonos, sonos_devices, last_selected_speaker,
          default_sonos_speaker, defaults, volume_step, current_volume,
          volume_item, speaker_volume, speaker_mute, menu,
          key_pc, key_delta, key_read, key_new, key_mute, key_speaker,
          key_outcome, nkeys, ui_pc, ui_dev, nselect, disc, tap,
          app_running, monitor_stop_event, hotkey_listener, press, key_log>>

(***************************************************************************)
(* Bounds of the model.                                                    *)
(***************************************************************************)
MaxKeys == 2        \* key events delivered in one run
MaxDisc == 2        \* discoveries started in one run (the first at startup)
MaxSelect == 1      \* speaker menu items clicked in one run
MaxRestarts == 2    \* restarts of the hotkey listener in one run
MaxNotifications == 2   \* device changes the monitor reports in one run

(***************************************************************************)
(* Values.                                                                 *)
(***************************************************************************)
None == "None"                  \* Python's None
Unset == ""                     \* the empty string of `... or ""`
Unknown == "Unknown"            \* get_current_audio_device's sentinel
DefaultTrigger == "DELL U2723QE"
OtherDevice == "MacBook Pro Speakers"
Devices == {DefaultTrigger, OtherDevice}

Speakers == {"Kitchen", "Office"}
\* position of a player name in ascending string order
NameRank == [n \in Speakers |-> IF n = "Kitchen" THEN 1 ELSE 2]

\* volumes the speakers report at startup
InitVolume == [n \in Speakers |-> IF n = "Kitchen" THEN 0 ELSE 98]
StepChoices == {5, 20}          \* volume steps a saved preference may hold
DefaultStep == 5
SliderMin == 1                  \* volume step slider, setMinValue_
SliderMax == 20                 \* volume step slider, setMaxValue_
SavedSteps == {-1, 0, 1, 20, 50}    \* values the store may hold for the step
NoneItem == "(None - Manual Selection)"
MinVolume == 0
MaxVolume == 100
NoVolume == -1                  \* the display "Volume: --": no volume known
InitMute == [n \in Speakers |-> FALSE]

Range(s) == {s[i] : i \in DOMAIN s}

(***************************************************************************)
(* sorted(list(devices), key=lambda d: d.player_name)                      *)
(***************************************************************************)
RECURSIVE Insert(_, _)
Insert(x, s) ==
    IF s = <<>> THEN <<x>>
    ELSE IF NameRank[x] <= NameRank[Head(s)] THEN <<x>> \o s
    ELSE <<Head(s)>> \o Insert(x, Tail(s))

RECURSIVE sorted(_)
sorted(s) == IF s = <<>> THEN <<>> ELSE Insert(Head(s), sorted(Tail(s)))

\* the lists discover() may hand back for a set of speakers, in any order
RECURSIVE Orderings(_)
Orderings(S) ==
    IF S = {} THEN {<<>>}
    ELSE UNION {{<<x>> \o t : t \in Orderings(S \ {x})} : x \in S}

(***************************************************************************)
(* Python values of mixed type, and their truthiness.                      *)
(***************************************************************************)
BoolVal(b) == [kind |-> "bool", bool |-> b, obj |-> None]
ObjVal(o) == [kind |-> "obj", bool |-> FALSE, obj |-> o]
Truthy(v) == IF v.kind = "bool" THEN v.bool ELSE v.obj # None

\* max(0, min(100, current_volume + delta))
Min(a, b) == IF a <= b THEN a ELSE b
Max(a, b) == IF a >= b THEN a ELSE b
\* mutants: the clamp without its lower bound, and without its upper bound
ClampVolume_no_floor(c, d) == Min(MaxVolume, c + d)
ClampVolume_no_ceiling(c, d) == Max(MinVolume, c + d)
ClampVolume(c, d) == Max(MinVolume, Min(MaxVolume, c + d))

(***************************************************************************)
(* should_intercept: `a and b and c` yields the first falsy operand, or    *)
(* the last one.                                                           *)
(***************************************************************************)
\* mutant: the decision without the selected-speaker operand
should_intercept_no_speaker ==
    IF ~enabled THEN BoolVal(enabled)
    ELSE BoolVal(current_device = trigger_device)

should_intercept ==
    IF ~enabled THEN BoolVal(enabled)
    ELSE IF ~(current_device = trigger_device) THEN BoolVal(FALSE)
    ELSE ObjVal(selected_sonos)

(***************************************************************************)
(* Key listeners: MediaKeyTap (src/media_key_tap.py), with a global and a  *)
(* local NSEvent monitor, and VolumeKeyListener                            *)
(* (src/volume_key_listener.py), a Quartz event tap.  Each handler is a    *)
(* function of the event and of what the callback does when called; its    *)
(* result records whether the callback was invoked, the key type passed    *)
(* to it and whether the event is suppressed or passed on.                 *)
(***************************************************************************)
NSSystemDefined == "NSSystemDefined"
MediaKeySubtype == 8            \* event.subtype() of media keys
KeyDown == 10                   \* key_state 0xA
KeyStates == {KeyDown, 11}      \* key down, and 0xB: key up

\* event.data1(): key code in the high 16 bits, key state in bits 8..15,
\* repeat flag in bit 0
Data1(code, state, repeat) == code * 65536 + state * 256 + repeat
KeyCodes == {0, 1, 7, 16, 17, 18, 19}
EventData == {Data1(c, st, r) : c \in KeyCodes, st \in KeyStates,
                                r \in {0, 1}}
Events == [type : {NSSystemDefined, "NSKeyDown"},
           subtype : {MediaKeySubtype, 7},
           data1 : EventData]

\* what self.callback does when called: returns True, False or None, or
\* raises; "no_callback" is self.callback = None
CallbackResults == {"True", "False", "None", "raise", "no_callback"}
\* Quartz event types handed to the tap's callback
TapEventTypes == {"event", "kCGEventTapDisabledByTimeout",
                  "kCGEventTapDisabledByUserInput"}

key_code(data1) == data1 \div 65536          \* (data1 & 0xFFFF0000) >> 16
key_flags(data1) == data1 % 65536            \* data1 & 0x0000FFFF
key_state(flags) == (flags \div 256) % 256   \* (key_flags & 0xFF00) >> 8
key_repeat(flags) == flags % 2               \* key_flags & 0x1

\* mutant: every key code taken for a volume key
MediaKeyType_any(code) == IF code = 16 THEN "up" ELSE "down"

\* MediaKeyTap's lookup table
MediaKeyType(code) ==
    IF code = 16 THEN "up"
    ELSE IF code = 17 THEN "down"
    ELSE IF code = 18 THEN "mute"
    ELSE None

\* mutant: VolumeKeyListener looks the code up in MediaKeyTap's table
VolumeKeyType_media_codes(code) == MediaKeyType(code)

\* VolumeKeyListener's lookup table
VolumeKeyType(code) ==
    IF code = 0 THEN "up"
    ELSE IF code = 1 THEN "down"
    ELSE IF code = 7 THEN "mute"
    ELSE None

\* truthiness of the value the callback returned
CallbackTruthy(ret) == ret = "True"

\* MediaKeyTap.process_media_key: [invoked, key_type, ret], ret the value
\* returned (should_pass)
process_media_key(event, cb) ==
    LET flags == key_flags(event.data1)
        key_type == MediaKeyType(key_code(event.data1))
    IN  IF key_state(flags) = KeyDown /\ key_repeat(flags) = 0
           /\ key_type # None /\ cb # "no_callback"
        THEN [invoked |-> TRUE, key_type |-> key_type,
              ret |-> IF cb = "raise" THEN "True" ELSE cb]
        ELSE [invoked |-> FALSE, key_type |-> None, ret |-> "True"]

\* MediaKeyTap.handle_event, the global monitor's handler: it returns
\* nothing, and a global monitor only observes: the event goes on to the
\* application it was sent to
handle_event(event, cb) ==
    IF event.type = NSSystemDefined /\ event.subtype = MediaKeySubtype
    THEN LET r == process_media_key(event, cb)
         IN  [invoked |-> r.invoked, key_type |-> r.key_type,
              outcome |-> "passed"]
    ELSE [invoked |-> FALSE, key_type |-> None, outcome |-> "passed"]

\* MediaKeyTap.handle_event_local, the local monitor's handler: returning
\* None suppresses the event, returning the event passes it on
handle_event_local(event, cb) ==
    IF event.type = NSSystemDefined /\ event.subtype = MediaKeySubtype
    THEN LET r == process_media_key(event, cb)
         IN  [invoked |-> r.invoked, key_type |-> r.key_type,
              outcome |-> IF ~CallbackTruthy(r.ret)
                          THEN "suppressed" ELSE "passed"]
    ELSE [invoked |-> FALSE, key_type |-> None, outcome |-> "passed"]

\* VolumeKeyListener._event_callback: returning None suppresses the event,
\* returning the event passes it on
event_callback(event_type, event, cb) ==
    LET flags == key_flags(event.data1)
        key_type == VolumeKeyType(key_code(event.data1))
    IN  IF /\ event_type # "kCGEventTapDisabledByTimeout"
           /\ event_type # "kCGEventTapDisabledByUserInput"
           /\ event.type = NSSystemDefined
           /\ event.subtype = MediaKeySubtype
           /\ key_state(flags) = KeyDown
           /\ key_type # None
        THEN IF cb \in {"raise", "no_callback"}
             THEN [invoked |-> cb = "raise", key_type |-> key_type,
                   outcome |-> "passed"]
             ELSE [invoked |-> TRUE, key_type |-> key_type,
                   outcome |-> IF ~CallbackTruthy(cb)
                               THEN "suppressed" ELSE "passed"]
        ELSE [invoked |-> FALSE, key_type |-> None, outcome |-> "passed"]

\* the history of key events and speaker writes: nothing recorded
NoLog == [recording |-> FALSE, events |-> <<>>]
\* a history that records
EmptyLog == [recording |-> TRUE, events |-> <<>>]

\* no event handled yet
NoEvent == [listener |-> "none",
            event_type |-> "event",
            event |-> [type |-> "none", subtype |-> 0, data1 |-> 0],
            cb |-> "no_callback",
            invoked |-> FALSE, key_type |-> None, outcome |-> "passed"]

\* one event handled by `listener`, with the handler's result r
Handled(listener, event_type, event, cb, r) ==
    [listener |-> listener, event_type |-> event_type, event |-> event,
     cb |-> cb, invoked |-> r.invoked, key_type |-> r.key_type,
     outcome |-> r.outcome]


\* no key has been pressed yet
NoPress == [kind |-> "none", calls |-> 0]

\* the listener started by __init__: `started` counts the GlobalHotKeys
\* listeners created so far, self.hotkey_listener is the one created last,
\* `running` are those started and not stopped
FirstListener == [started |-> 1, running |-> {1}]

\* self.hotkey_listener.stop()
stop_listener(h) == [h EXCEPT !.running = @ \ {h.started}]

\* start_volume_key_listener: a new GlobalHotKeys listener is created,
\* assigned to self.hotkey_listener and started
start_listener(h) ==
    [started |-> h.started + 1, running |-> h.running \cup {h.started + 1}]

\* MediaKeyTap.start registers a global and a local monitor: the local one
\* is called for the events sent to this application ("when app is
\* active"), the global one for those sent to other applications
monitors_receiving(app_active) ==
    IF app_active THEN {"local"} ELSE {"global"}

\* the handler the monitor m calls
monitor_handler(m, event, cb) ==
    IF m = "local" THEN handle_event_local(event, cb)
    ELSE handle_event(event, cb)

(***************************************************************************)
(* get_current_audio_device: the name the OS reports, or the sentinel when *)
(* the query raises (or no default output device is listed).               *)
(***************************************************************************)
get_current_audio_device(queryOk, name) == IF queryOk THEN name ELSE Unknown

(***************************************************************************)
(* Initial state: the state __init__ leaves behind.  The persisted         *)
(* settings are whatever an earlier run stored.                            *)
(***************************************************************************)
NoThread == [pc |-> "none", result |-> "none", target |-> None]
NewThread == [pc |-> "discover", result |-> "none", target |-> None]

\* the prototype's volume step at startup: saved_volume_step if it is
\* greater than 0, else 5
load_volume_step(saved_volume_step) ==
    IF saved_volume_step > 0 THEN saved_volume_step ELSE DefaultStep

\* the state __init__ leaves behind when the settings store holds
\* saved_volume_step under 'volume_step' (the main controller neither
\* reads nor writes that key)
Startup(saved_volume_step) ==
    /\ variant \in {"main", "proto"}
    /\ enabled \in BOOLEAN
    /\ trigger_device = DefaultTrigger
    /\ \E ok \in BOOLEAN, d \in Devices :
          current_device = get_current_audio_device(ok, d)
    /\ selected_sonos = None
    /\ sonos_devices = <<>>
    /\ last_selected_speaker \in Speakers \cup {None}
    /\ default_sonos_speaker \in
          IF variant = "proto" THEN Speakers \cup {Unset} ELSE {Unset}
    /\ defaults = [enabled |-> enabled,
                   trigger_device |-> trigger_device,
                   last_selected_speaker |-> last_selected_speaker,
                   default_sonos_speaker |-> default_sonos_speaker,
                   volume_step |-> IF variant = "proto"
                                   THEN saved_volume_step ELSE 0]
    /\ volume_step = IF variant = "proto"
                     THEN load_volume_step(saved_volume_step)
                     ELSE DefaultStep
    /\ notifications = 0
    /\ current_volume = 0
    /\ volume_item = NoVolume
    /\ speaker_volume = InitVolume
    /\ speaker_mute = InitMute
    /\ key_mute = FALSE
    /\ tap = NoEvent
    /\ app_running = TRUE
    /\ monitor_stop_event = FALSE
    /\ hotkey_listener = FirstListener
    /\ press = NoPress
    /\ key_log = NoLog
    /\ menu = [n \in {} |-> 0]
    /\ key_pc = "idle"
    /\ key_delta = 0
    /\ key_read = 0
    /\ key_new = 0
    /\ key_speaker = None
    /\ key_outcome = "none"
    /\ nkeys = 0
    /\ ui_pc = "idle"
    /\ ui_dev = None
    /\ nselect = 0
    /\ disc = [i \in 1..MaxDisc |-> IF i = 1 THEN NewThread ELSE NoThread]

Init == \E saved_volume_step \in StepChoices : Startup(saved_volume_step)


(***************************************************************************)
(* Hotkey listener thread.                                                 *)
(***************************************************************************)
keyVars == <<key_pc, key_delta, key_read, key_new, key_mute, key_speaker,
            key_outcome>>
uiVars == <<ui_pc, ui_dev, nselect>>
settingVars == <<variant, enabled, trigger_device, last_selected_speaker,
                 default_sonos_speaker, defaults, volume_step>>

\* the history with one more entry, where a history is recorded
Record(op, delta, speaker, read, value) ==
    IF key_log.recording
    THEN [key_log EXCEPT !.events =
             Append(@, [op |-> op, delta |-> delta, speaker |-> speaker,
                        read |-> read, value |-> value])]
    ELSE key_log

\* change_volume returns (or its except branch ends): the locals are gone
KeyReturn ==
    /\ key_pc' = "idle"
    /\ key_delta' = 0
    /\ key_read' = 0
    /\ key_new' = 0
    /\ key_mute' = FALSE
    /\ key_speaker' = None

\* `if self.should_intercept():` of the hotkey callbacks: the decision is
\* computed from the state as it is when the key event is handled
\* mutant: a decision that, once taken, is kept for the later key events
intercept_decision_cached ==
    key_outcome = "controlling" \/ Truthy(should_intercept)

intercept_decision == Truthy(should_intercept)

\* mutant: the step of two key events applied in one call
change_volume_batched(delta) ==
    /\ key_pc' = "change_volume"
    /\ key_delta' = 2 * delta
    /\ UNCHANGED <<key_read, key_mute, key_new, key_speaker>>

\* entry of change_volume(delta)
change_volume(delta) ==
    /\ key_pc' = "change_volume"
    /\ key_delta' = delta
    /\ UNCHANGED <<key_read, key_mute, key_new, key_speaker>>

\* on_activate_volume_up / on_activate_volume_down: the decision is taken
\* by calling should_intercept, then change_volume(+-volume_step) is called
on_activate_volume(dir) ==
    /\ key_pc = "idle"
    /\ nkeys < MaxKeys
    /\ nkeys' = nkeys + 1
    /\ key_log' = Record("key", IF dir = "up" THEN volume_step ELSE -volume_step,
                          None, 0, 0)
    /\ IF intercept_decision
       THEN /\ change_volume(IF dir = "up" THEN volume_step ELSE -volume_step)
            /\ key_outcome' = "controlling"
       ELSE /\ KeyReturn
            /\ key_outcome' = "not_intercepting"
    /\ UNCHANGED <<settingVars, tap, app_running, monitor_stop_event, hotkey_listener, press, current_device, notifications, selected_sonos, sonos_devices,
                   current_volume, volume_item, speaker_volume, speaker_mute, menu, uiVars, disc>>

\* change_volume, guard and read: `if not self.selected_sonos: return`,
\* current_volume = self.selected_sonos.volume, new_volume = max(0, min(...))
change_volume_read(ok) ==
    /\ key_pc = "change_volume"
    /\ IF selected_sonos = None
       THEN KeyReturn /\ UNCHANGED key_outcome
       ELSE IF ~ok
       THEN KeyReturn /\ key_outcome' = "error"
       ELSE /\ key_read' = speaker_volume[selected_sonos]
            /\ key_new' = ClampVolume(speaker_volume[selected_sonos], key_delta)
            /\ key_pc' = "write"
            /\ UNCHANGED <<key_delta, key_mute, key_speaker, key_outcome>>
    /\ UNCHANGED <<settingVars, tap, app_running, monitor_stop_event, hotkey_listener, press, current_device, notifications, selected_sonos, sonos_devices,
                   current_volume, volume_item, speaker_volume, speaker_mute, menu, nkeys, key_log, uiVars,
                   disc>>

\* mutant: the cached volume is updated before the speaker is written
change_volume_write_caches_first(ok) ==
    /\ key_pc = "write"
    /\ current_volume' = key_new
    /\ IF ok
       THEN /\ speaker_volume' =
                 [speaker_volume EXCEPT ![selected_sonos] = key_new]
            /\ key_speaker' = selected_sonos
            /\ key_pc' = "store"
            /\ key_log' = Record("write", key_delta, selected_sonos,
                                  key_read, key_new)
            /\ UNCHANGED <<key_delta, key_read, key_mute, key_new,
                           key_outcome>>
       ELSE /\ KeyReturn
            /\ key_outcome' = "error"
            /\ UNCHANGED <<speaker_volume, key_log>>
    /\ UNCHANGED <<settingVars, tap, app_running, monitor_stop_event, hotkey_listener, press, current_device, notifications,
                   selected_sonos, sonos_devices, volume_item,
                   speaker_mute, menu, nkeys, uiVars, disc>>

\* change_volume, write: self.selected_sonos.volume = new_volume
change_volume_write(ok) ==
    /\ key_pc = "write"
    /\ IF ok
       THEN /\ speaker_volume' =
                 [speaker_volume EXCEPT ![selected_sonos] = key_new]
            /\ key_speaker' = selected_sonos
            /\ key_pc' = "store"
            /\ key_log' = Record("write", key_delta, selected_sonos,
                                  key_read, key_new)
            /\ UNCHANGED <<key_delta, key_read, key_mute, key_new,
                           key_outcome>>
       ELSE /\ KeyReturn
            /\ key_outcome' = "error"
            /\ UNCHANGED <<speaker_volume, key_log>>
    /\ UNCHANGED <<settingVars, tap, app_running, monitor_stop_event, hotkey_listener, press, current_device, notifications,
                   selected_sonos, sonos_devices, current_volume, volume_item,
                   speaker_mute, menu, nkeys, uiVars, disc>>

\* change_volume, cache: self.current_volume = new_volume (and the display)
change_volume_store ==
    /\ key_pc = "store"
    /\ current_volume' = key_new
    /\ volume_item' = key_new
    /\ KeyReturn
    /\ UNCHANGED <<key_outcome, settingVars, tap, app_running, monitor_stop_event, hotkey_listener, press, current_device, notifications, selected_sonos, sonos_devices,
                   speaker_volume, speaker_mute, menu, nkeys, key_log, uiVars, disc>>

\* toggle_mute, guard and read: `if not self.selected_sonos: return`,
\* current_mute = self.selected_sonos.mute
toggle_mute_read(ok) ==
    /\ key_pc = "toggle_mute"
    /\ IF selected_sonos = None
       THEN KeyReturn /\ UNCHANGED key_outcome
       ELSE IF ~ok
       THEN KeyReturn /\ key_outcome' = "error"
       ELSE /\ key_mute' = speaker_mute[selected_sonos]
            /\ key_pc' = "mute_write"
            /\ UNCHANGED <<key_delta, key_read, key_new, key_speaker,
                           key_outcome>>
    /\ UNCHANGED <<settingVars, tap, app_running, monitor_stop_event, hotkey_listener, press, current_device, notifications,
                   selected_sonos, sonos_devices, current_volume, volume_item,
                   speaker_volume, speaker_mute, menu, nkeys, key_log, uiVars, disc>>

\* mutant: the speaker is muted whatever flag was read
toggle_mute_write_mutes(ok) ==
    /\ key_pc = "mute_write"
    /\ IF ok
       THEN /\ speaker_mute' =
                 [speaker_mute EXCEPT ![selected_sonos] = TRUE]
            /\ key_log' = Record("mute", 0, selected_sonos, key_mute,
                                  TRUE)
            /\ UNCHANGED key_outcome
       ELSE /\ key_outcome' = "error"
            /\ UNCHANGED <<speaker_mute, key_log>>
    /\ KeyReturn
    /\ UNCHANGED <<settingVars, tap, app_running, monitor_stop_event, hotkey_listener, press, current_device, notifications,
                   selected_sonos, sonos_devices, current_volume, volume_item,
                   speaker_volume, menu, nkeys, uiVars, disc>>

\* toggle_mute, write: self.selected_sonos.mute = not current_mute
toggle_mute_write(ok) ==
    /\ key_pc = "mute_write"
    /\ IF ok
       THEN /\ speaker_mute' =
                 [speaker_mute EXCEPT ![selected_sonos] = ~key_mute]
            /\ key_log' = Record("mute", 0, selected_sonos, key_mute,
                                  ~key_mute)
            /\ UNCHANGED key_outcome
       ELSE /\ key_outcome' = "error"
            /\ UNCHANGED <<speaker_mute, key_log>>
    /\ KeyReturn
    /\ UNCHANGED <<settingVars, tap, app_running, monitor_stop_event, hotkey_listener, press, current_device, notifications,
                   selected_sonos, sonos_devices, current_volume, volume_item,
                   speaker_volume, menu, nkeys, uiVars, disc>>

(***************************************************************************)
(* Monitor thread: one iteration of monitor_audio_device's loop.           *)
(***************************************************************************)
\* mutant: a notification on every tick, changed device or not
monitor_audio_device_notify_always(queryOk, name) ==
    LET new_device == get_current_audio_device(queryOk, name) IN
    /\ app_running /\ ~monitor_stop_event
    /\ notifications < MaxNotifications
    /\ current_device' = new_device
    /\ notifications' = notifications + 1
    /\ UNCHANGED <<settingVars, tap, app_running, monitor_stop_event, hotkey_listener, press, selected_sonos, sonos_devices,
                   current_volume, volume_item, speaker_volume, speaker_mute,
                   menu, keyVars, nkeys, key_log, uiVars, disc>>

\* mutant: a changed device also resets the cached volume
monitor_audio_device_resets_volume(queryOk, name) ==
    LET new_device == get_current_audio_device(queryOk, name) IN
    /\ app_running /\ ~monitor_stop_event
    /\ IF new_device # current_device
       THEN /\ notifications < MaxNotifications
            /\ current_device' = new_device
            /\ notifications' = notifications + 1
            /\ current_volume' = NoVolume
       ELSE UNCHANGED <<current_device, notifications, current_volume>>
    /\ UNCHANGED <<settingVars, tap, app_running, monitor_stop_event, hotkey_listener, press, selected_sonos, sonos_devices,
                   volume_item, speaker_volume, speaker_mute,
                   menu, keyVars, nkeys, key_log, uiVars, disc>>

\* mutant: the loop does not survive a failed query: once the device is
\* "Unknown" no further tick is made
monitor_audio_device_dies(queryOk, name) ==
    LET new_device == get_current_audio_device(queryOk, name) IN
    /\ app_running /\ ~monitor_stop_event
    /\ current_device # Unknown
    /\ IF new_device # current_device
       THEN /\ notifications < MaxNotifications
            /\ current_device' = new_device
            /\ notifications' = notifications + 1
       ELSE UNCHANGED <<current_device, notifications>>
    /\ UNCHANGED <<settingVars, tap, app_running, monitor_stop_event, hotkey_listener, press, selected_sonos, sonos_devices,
                   current_volume, volume_item, speaker_volume, speaker_mute,
                   menu, keyVars, nkeys, key_log, uiVars, disc>>

\* new_device = self.get_current_audio_device(); if it differs from
\* self.current_device it is stored and rumps.notification("Audio Device
\* Changed", ...) is posted; then time.sleep(2)
monitor_audio_device(queryOk, name) ==
    LET new_device == get_current_audio_device(queryOk, name) IN
    /\ app_running /\ ~monitor_stop_event
    /\ IF new_device # current_device
       THEN /\ notifications < MaxNotifications
            /\ current_device' = new_device
            /\ notifications' = notifications + 1
       ELSE UNCHANGED <<current_device, notifications>>
    /\ UNCHANGED <<settingVars, tap, app_running, monitor_stop_event, hotkey_listener, press, selected_sonos, sonos_devices,
                   current_volume, volume_item, speaker_volume, speaker_mute,
                   menu, keyVars, nkeys, key_log, uiVars, disc>>

(***************************************************************************)
(* Main thread: menu callbacks.  A callback runs to completion before the  *)
(* next one starts; the other threads run in between its statements.       *)
(***************************************************************************)
toggle_enabled ==
    /\ ui_pc = "idle"
    /\ enabled' = ~enabled
    /\ defaults' = [defaults EXCEPT !.enabled = ~enabled]
    /\ UNCHANGED <<variant, tap, app_running, monitor_stop_event, hotkey_listener, press, trigger_device, last_selected_speaker,
                   default_sonos_speaker, volume_step, current_device, notifications,
                   selected_sonos, sonos_devices, current_volume, volume_item,
                   speaker_volume, speaker_mute, menu, keyVars, nkeys, key_log, uiVars,
                   disc>>

\* main controller: the trigger device typed into the dialog (not persisted)
configure_trigger(name) ==
    /\ ui_pc = "idle"
    /\ variant = "main"
    /\ trigger_device' = name
    /\ UNCHANGED <<variant, tap, app_running, monitor_stop_event, hotkey_listener, press, enabled, last_selected_speaker,
                   default_sonos_speaker, defaults, volume_step,
                   current_device, notifications, selected_sonos, sonos_devices,
                   current_volume, volume_item, speaker_volume, speaker_mute, menu, keyVars, nkeys, key_log,
                   uiVars, disc>>

\* prototype: the trigger device picked in the preferences window
trigger_device_changed_(name) ==
    /\ ui_pc = "idle"
    /\ variant = "proto"
    /\ trigger_device' = name
    /\ defaults' = [defaults EXCEPT !.trigger_device = name]
    /\ UNCHANGED <<variant, tap, app_running, monitor_stop_event, hotkey_listener, press, enabled, last_selected_speaker,
                   default_sonos_speaker, volume_step, current_device, notifications,
                   selected_sonos, sonos_devices, current_volume, volume_item,
                   speaker_volume, speaker_mute, menu, keyVars, nkeys, key_log, uiVars,
                   disc>>

\* prototype: the volume step slider moved (sender.intValue())
volume_step_changed_(new_value) ==
    /\ ui_pc = "idle"
    /\ variant = "proto"
    /\ volume_step' = new_value
    /\ defaults' = [defaults EXCEPT !.volume_step = new_value]
    /\ UNCHANGED <<variant, tap, app_running, monitor_stop_event, hotkey_listener, press, enabled,
                   trigger_device, last_selected_speaker,
                   default_sonos_speaker, current_device, notifications,
                   selected_sonos, sonos_devices, current_volume, volume_item,
                   speaker_volume, speaker_mute, menu, keyVars, nkeys,
                   key_log, uiVars, disc>>

\* prototype: a default speaker picked in the preferences window; only the
\* settings store is written, "(None - Manual Selection)" removes the key
default_speaker_changed_(selected) ==
    /\ ui_pc = "idle"
    /\ variant = "proto"
    /\ defaults' = [defaults EXCEPT !.default_sonos_speaker =
                       IF selected = NoneItem THEN Unset ELSE selected]
    /\ UNCHANGED <<variant, tap, app_running, monitor_stop_event, hotkey_listener, press, enabled,
                   trigger_device, last_selected_speaker,
                   default_sonos_speaker, volume_step, current_device,
                   notifications, selected_sonos, sonos_devices,
                   current_volume, volume_item, speaker_volume, speaker_mute,
                   menu, keyVars, nkeys, key_log, uiVars, disc>>

\* refresh_sonos_devices: starts one more discover_devices thread
refresh_sonos_devices ==
    /\ ui_pc = "idle"
    /\ \E i \in 1..MaxDisc :
          /\ disc[i].pc = "none"
          /\ \A j \in 1..(i - 1) : disc[j].pc # "none"
          /\ disc' = [disc EXCEPT ![i] = NewThread]
    /\ UNCHANGED <<settingVars, tap, app_running, monitor_stop_event, hotkey_listener, press, current_device, notifications, selected_sonos, sonos_devices,
                   current_volume, volume_item, speaker_volume, speaker_mute, menu, keyVars, nkeys, key_log,
                   uiVars>>

\* select_sonos(sender, device): self.selected_sonos = device
select_sonos(device) ==
    /\ ui_pc = "idle"
    /\ device \in DOMAIN menu
    /\ nselect < MaxSelect
    /\ nselect' = nselect + 1
    /\ selected_sonos' = device
    /\ ui_dev' = device
    /\ ui_pc' = "sel_save"
    /\ UNCHANGED <<settingVars, tap, app_running, monitor_stop_event, hotkey_listener, press, current_device, notifications, sonos_devices, current_volume, volume_item,
                   speaker_volume, speaker_mute, menu, keyVars, nkeys, key_log, disc>>

\* select_sonos: the name is remembered and written to the settings store
select_sonos_save ==
    /\ ui_pc = "sel_save"
    /\ last_selected_speaker' = ui_dev
    /\ defaults' = [defaults EXCEPT !.last_selected_speaker = ui_dev]
    /\ ui_pc' = "sel_volume"
    /\ UNCHANGED <<variant, tap, app_running, monitor_stop_event, hotkey_listener, press, enabled, trigger_device, default_sonos_speaker,
                   volume_step, current_device, notifications, selected_sonos, sonos_devices,
                   current_volume, volume_item, speaker_volume, speaker_mute, menu, keyVars, nkeys, key_log,
                   ui_dev, nselect, disc>>

\* select_sonos: current_volume = device.volume, inside try/except
select_sonos_volume(ok) ==
    /\ ui_pc = "sel_volume"
    /\ current_volume' = IF ok THEN speaker_volume[ui_dev] ELSE current_volume
    /\ volume_item' = IF ok THEN speaker_volume[ui_dev] ELSE volume_item
    /\ ui_pc' = "sel_menu"
    /\ UNCHANGED <<settingVars, tap, app_running, monitor_stop_event, hotkey_listener, press, current_device, notifications, selected_sonos, sonos_devices,
                   speaker_volume, speaker_mute, menu, keyVars, nkeys, key_log, ui_dev, nselect,
                   disc>>

\* select_sonos: uncheck every listed speaker, check the clicked item
select_sonos_menu ==
    /\ ui_pc = "sel_menu"
    /\ menu' = [n \in DOMAIN menu |->
                   IF n = ui_dev THEN 1
                   ELSE IF n \in Range(sonos_devices) THEN 0
                   ELSE menu[n]]
    /\ ui_pc' = "idle"
    /\ ui_dev' = None
    /\ UNCHANGED <<nselect, settingVars, tap, app_running, monitor_stop_event, hotkey_listener, press, current_device, notifications, selected_sonos, sonos_devices,
                   current_volume, volume_item, speaker_volume, speaker_mute, keyVars, nkeys, key_log,
                   disc>>

(***************************************************************************)
(* Discovery threads: discover_devices.                                    *)
(***************************************************************************)
Finished(result) == [pc |-> "done", result |-> result, target |-> None]

StrTruthy(s) == s \notin {None, Unset}
\* mutant: `b or a`, the operands the other way round
PyOr_swapped(a, b) == IF StrTruthy(b) THEN b ELSE a
PyOr(a, b) == IF StrTruthy(a) THEN a ELSE b

\* the name the auto-selection looks for
speaker_to_select ==
    IF variant = "proto"
    THEN PyOr(default_sonos_speaker, last_selected_speaker)
    ELSE last_selected_speaker

\* mutant: a failed discovery empties the registry
discover_error_clears(i) ==
    /\ disc[i].pc = "discover"
    /\ disc' = [disc EXCEPT ![i] = Finished("error")]
    /\ sonos_devices' = <<>>
    /\ UNCHANGED <<settingVars, tap, app_running, monitor_stop_event, hotkey_listener, press, current_device, notifications,
                   selected_sonos, current_volume, volume_item,
                   speaker_volume, speaker_mute, menu, keyVars, nkeys, key_log,
                   uiVars>>

\* discover(timeout=3) raised: the except branch notifies and ends
discover_error(i) ==
    /\ disc[i].pc = "discover"
    /\ disc' = [disc EXCEPT ![i] = Finished("error")]
    /\ UNCHANGED <<settingVars, tap, app_running, monitor_stop_event, hotkey_listener, press, current_device, notifications, selected_sonos, sonos_devices,
                   current_volume, volume_item, speaker_volume, speaker_mute, menu, keyVars, nkeys, key_log,
                   uiVars>>

\* discover(timeout=3) returned `devices`: `if devices:` stores the sorted
\* list, the else branch only notifies
discover_result(i, devices) ==
    /\ disc[i].pc = "discover"
    /\ IF devices # <<>>
       THEN /\ sonos_devices' = sorted(devices)
            /\ disc' = [disc EXCEPT ![i] = [pc |-> "menu", result |-> "found",
                                            target |-> None]]
       ELSE /\ UNCHANGED sonos_devices
            /\ disc' = [disc EXCEPT ![i] = Finished("empty")]
    /\ UNCHANGED <<settingVars, tap, app_running, monitor_stop_event, hotkey_listener, press, current_device, notifications, selected_sonos, current_volume, volume_item,
                   speaker_volume, speaker_mute, menu, keyVars, nkeys, key_log, uiVars>>

\* update_sonos_menu: one item per listed speaker, the selected one checked
update_sonos_menu(i) ==
    /\ disc[i].pc = "menu"
    /\ menu' = [n \in Range(sonos_devices) |->
                   IF selected_sonos # None /\ selected_sonos = n
                   THEN 1 ELSE 0]
    /\ disc' = [disc EXCEPT ![i].pc = "pick"]
    /\ UNCHANGED <<settingVars, tap, app_running, monitor_stop_event, hotkey_listener, press, current_device, notifications, selected_sonos, sonos_devices,
                   current_volume, volume_item, speaker_volume, speaker_mute, keyVars, nkeys, key_log, uiVars>>

\* auto-selection, the search: the listed speaker whose player_name is the
\* name looked for, if there is one
discover_pick(i) ==
    /\ disc[i].pc = "pick"
    /\ IF StrTruthy(speaker_to_select)
          /\ speaker_to_select \in Range(sonos_devices)
       THEN disc' = [disc EXCEPT ![i].pc = "assign",
                                 ![i].target = speaker_to_select]
       ELSE disc' = [disc EXCEPT ![i] = Finished("found")]
    /\ UNCHANGED <<settingVars, tap, app_running, monitor_stop_event, hotkey_listener, press, current_device, notifications, selected_sonos, sonos_devices,
                   current_volume, volume_item, speaker_volume, speaker_mute, menu, keyVars, nkeys, key_log,
                   uiVars>>

\* auto-selection, the assignment: self.selected_sonos = device
discover_assign(i) ==
    /\ disc[i].pc = "assign"
    /\ selected_sonos' = disc[i].target
    /\ disc' = [disc EXCEPT ![i].pc = "volume"]
    /\ UNCHANGED <<settingVars, tap, app_running, monitor_stop_event, hotkey_listener, press, current_device, notifications, sonos_devices, current_volume, volume_item,
                   speaker_volume, speaker_mute, menu, keyVars, nkeys, key_log, uiVars>>

\* auto-selection, the display: current_volume = device.volume in try/except
discover_volume(i, ok) ==
    /\ disc[i].pc = "volume"
    /\ current_volume' =
          IF ok THEN speaker_volume[disc[i].target] ELSE current_volume
    /\ volume_item' =
          IF ok THEN speaker_volume[disc[i].target] ELSE volume_item
    /\ disc' = [disc EXCEPT ![i] = Finished("found")]
    /\ UNCHANGED <<settingVars, tap, app_running, monitor_stop_event, hotkey_listener, press, current_device, notifications, selected_sonos, sonos_devices,
                   speaker_volume, speaker_mute, menu, keyVars, nkeys, key_log, uiVars>>

(***************************************************************************)
(* Physical key presses and the listeners they reach.                      *)
(***************************************************************************)
restVars == <<settingVars, current_device, notifications, selected_sonos,
              sonos_devices, current_volume, volume_item, speaker_volume,
              speaker_mute, menu, keyVars, nkeys, key_log, uiVars, disc,
              app_running>>

\* mutant: the new listener is started without stopping the old one
restart_hotkey_listener_no_stop ==
    /\ variant = "proto"
    /\ hotkey_listener.started <= MaxRestarts
    /\ hotkey_listener' = start_listener(hotkey_listener)
    /\ UNCHANGED <<restVars, tap, press>>
    /\ UNCHANGED monitor_stop_event

\* prototype, restart_hotkey_listener (called by finish_recording):
\* self.hotkey_listener.stop(), then start_volume_key_listener()
restart_hotkey_listener ==
    /\ variant = "proto"
    /\ hotkey_listener.started <= MaxRestarts
    /\ hotkey_listener' = start_listener(stop_listener(hotkey_listener))
    /\ UNCHANGED <<restVars, tap, press>>
    /\ UNCHANGED monitor_stop_event

\* a hotkey is pressed once: every running GlobalHotKeys listener activates
\* its on_activate_volume_up / on_activate_volume_down callback once
hotkey_press ==
    /\ press' = [kind |-> "hotkey",
                 calls |-> Cardinality(hotkey_listener.running)]
    /\ UNCHANGED <<restVars, tap, hotkey_listener>>
    /\ UNCHANGED monitor_stop_event

\* a media key is pressed once: the event is handed to the monitors that
\* receive it, each of which calls its handler
media_key_press(event, cb, app_active) ==
    LET receiving == monitors_receiving(app_active)
        m == CHOOSE x \in receiving : TRUE
    IN  /\ tap' = Handled(m, "event", event, cb,
                          monitor_handler(m, event, cb))
        /\ press' = [kind |-> "media",
                     calls |-> Cardinality(
                         {x \in receiving :
                             monitor_handler(x, event, cb).invoked})]
        /\ UNCHANGED <<restVars, hotkey_listener>>
        /\ UNCHANGED monitor_stop_event

(***************************************************************************)
(* The threads' steps.                                                     *)
(***************************************************************************)
KeyNext ==
    \/ \E dir \in {"up", "down"} : on_activate_volume(dir)
    \/ \E ok \in BOOLEAN : change_volume_read(ok)
    \/ \E ok \in BOOLEAN : change_volume_write(ok)
    \/ change_volume_store

\* app.run() returns (the menu's Quit item) and the process exits; the
\* monitor thread is a daemon thread (daemon=True) and ends with the
\* process, wherever it is; the stop event is not touched
quit ==
    /\ app_running
    /\ app_running' = FALSE
    /\ UNCHANGED <<settingVars, tap, monitor_stop_event, hotkey_listener, press, current_device,
                   notifications, selected_sonos, sonos_devices,
                   current_volume, volume_item, speaker_volume, speaker_mute,
                   menu, keyVars, nkeys, key_log, uiVars, disc>>

MonitorNext ==
    \E ok \in BOOLEAN, d \in Devices \cup {Unknown} :
        monitor_audio_device(ok, d)

SettingsNext ==
    \/ toggle_enabled
    \/ \E d \in Devices : configure_trigger(d)
    \/ \E d \in Devices : trigger_device_changed_(d)

PreferencesNext ==
    \/ \E v \in SliderMin..SliderMax : volume_step_changed_(v)
    \/ \E n \in Range(sonos_devices) \cup {NoneItem} :
          default_speaker_changed_(n)

SelectNext ==
    \/ \E s \in Speakers : select_sonos(s)
    \/ select_sonos_save
    \/ \E ok \in BOOLEAN : select_sonos_volume(ok)
    \/ select_sonos_menu

DiscoverNext ==
    \/ \E i \in 1..MaxDisc : discover_error(i)
    \/ \E i \in 1..MaxDisc, S \in SUBSET Speakers :
          \E devices \in Orderings(S) : discover_result(i, devices)
    \/ \E i \in 1..MaxDisc : update_sonos_menu(i)
    \/ \E i \in 1..MaxDisc : discover_pick(i)
    \/ \E i \in 1..MaxDisc : discover_assign(i)
    \/ \E i \in 1..MaxDisc, ok \in BOOLEAN : discover_volume(i, ok)

(***************************************************************************)
(* Spec: the controller from startup on, with the discovery that __init__  *)
(* starts: hotkeys, the monitor, the settings callbacks, selection.        *)
(***************************************************************************)
Next ==
    \/ KeyNext
    \/ MonitorNext
    \/ SettingsNext
    \/ SelectNext
    \/ DiscoverNext

Spec == Init /\ [][Next]_vars

(***************************************************************************)
(* SpecDiscovery: repeated discoveries (Refresh Devices) against selection *)
(* and the hotkeys, on the trigger device with the control enabled.        *)
(***************************************************************************)
InitDiscovery ==
    /\ Init
    /\ enabled
    /\ current_device = trigger_device
    /\ volume_step = DefaultStep

NextDiscovery ==
    \/ KeyNext
    \/ DiscoverNext
    \/ refresh_sonos_devices

SpecDiscovery == InitDiscovery /\ [][NextDiscovery]_vars

(***************************************************************************)
(* SpecVolume: change_volume(delta) as a function of the speaker's volume  *)
(* and of delta, on a selected speaker, with nothing else running.         *)
(***************************************************************************)
Volumes == MinVolume..MaxVolume
MaxDelta == 20
Deltas == (-MaxDelta)..MaxDelta

InitVolumeSpec ==
    /\ variant = "main"
    /\ enabled = TRUE
    /\ trigger_device = DefaultTrigger
    /\ current_device = DefaultTrigger
    /\ selected_sonos = "Kitchen"
    /\ sonos_devices = <<"Kitchen", "Office">>
    /\ last_selected_speaker = "Kitchen"
    /\ default_sonos_speaker = Unset
    /\ defaults = [enabled |-> TRUE,
                   trigger_device |-> DefaultTrigger,
                   last_selected_speaker |-> "Kitchen",
                   default_sonos_speaker |-> Unset,
                   volume_step |-> 0]
    /\ volume_step = DefaultStep
    /\ \E c \in Volumes :
          /\ speaker_volume = [InitVolume EXCEPT !["Kitchen"] = c]
          /\ current_volume = c
          /\ volume_item = c
    /\ notifications = 0
    /\ \E m \in BOOLEAN : speaker_mute = [InitMute EXCEPT !["Kitchen"] = m]
    /\ key_mute = FALSE
    /\ tap = NoEvent
    /\ app_running = TRUE
    /\ monitor_stop_event = FALSE
    /\ hotkey_listener = FirstListener
    /\ press = NoPress
    /\ key_log = NoLog
    /\ menu = [n \in Speakers |-> IF n = "Kitchen" THEN 1 ELSE 0]
    /\ key_pc = "idle"
    /\ key_delta = 0
    /\ key_read = 0
    /\ key_new = 0
    /\ key_speaker = None
    /\ key_outcome = "none"
    /\ nkeys = 0
    /\ ui_pc = "idle"
    /\ ui_dev = None
    /\ nselect = 0
    /\ disc = [i \in 1..MaxDisc |->
                  IF i = 1 THEN Finished("found") ELSE NoThread]

\* one call change_volume(delta)
call_change_volume(delta) ==
    /\ key_pc = "idle"
    /\ nkeys < MaxKeys
    /\ nkeys' = nkeys + 1
    /\ key_log' = Record("key", delta, None, 0, 0)
    /\ change_volume(delta)
    /\ key_outcome' = "controlling"
    /\ UNCHANGED <<settingVars, tap, app_running, monitor_stop_event, hotkey_listener, press, current_device, notifications, selected_sonos, sonos_devices,
                   current_volume, volume_item, speaker_volume, speaker_mute, menu, uiVars, disc>>

\* one call toggle_mute()
call_toggle_mute ==
    /\ key_pc = "idle"
    /\ nkeys < MaxKeys
    /\ nkeys' = nkeys + 1
    /\ key_log' = Record("mute_key", 0, None, FALSE, FALSE)
    /\ key_pc' = "toggle_mute"
    /\ key_outcome' = "controlling"
    /\ UNCHANGED <<key_delta, key_read, key_mute, key_new, key_speaker,
                   settingVars, tap, app_running, monitor_stop_event, hotkey_listener, press, current_device, notifications,
                   selected_sonos, sonos_devices, current_volume, volume_item,
                   speaker_volume, speaker_mute, menu, uiVars, disc>>

NextVolume ==
    \/ \E d \in Deltas : call_change_volume(d)
    \/ \E ok \in BOOLEAN : change_volume_read(ok)
    \/ \E ok \in BOOLEAN : change_volume_write(ok)
    \/ change_volume_store
    \/ call_toggle_mute
    \/ \E ok \in BOOLEAN : toggle_mute_read(ok)
    \/ \E ok \in BOOLEAN : toggle_mute_write(ok)

SpecVolume == InitVolumeSpec /\ [][NextVolume]_vars


(***************************************************************************)
(* SpecSettings: the settings from startup on, for any stored volume step: *)
(* the menu and preferences callbacks, selection, the startup discovery.   *)
(***************************************************************************)
InitSettings == \E saved_volume_step \in SavedSteps : Startup(saved_volume_step)

NextSettings ==
    \/ SettingsNext
    \/ PreferencesNext
    \/ SelectNext
    \/ DiscoverNext

SpecSettings == InitSettings /\ [][NextSettings]_vars

(***************************************************************************)
(* SpecOrder: key events and toggle_mute calls one after the other on a   *)
(* selected speaker, with the history of events and speaker writes kept.   *)
(***************************************************************************)
OrderVolumes == {0, 3, 50, 97, 100}

InitOrder ==
    /\ variant = "proto"
    /\ enabled = TRUE
    /\ trigger_device = DefaultTrigger
    /\ current_device = DefaultTrigger
    /\ notifications = 0
    /\ selected_sonos = "Kitchen"
    /\ sonos_devices = <<"Kitchen", "Office">>
    /\ last_selected_speaker = "Kitchen"
    /\ default_sonos_speaker = Unset
    /\ volume_step \in StepChoices
    /\ defaults = [enabled |-> TRUE,
                   trigger_device |-> DefaultTrigger,
                   last_selected_speaker |-> "Kitchen",
                   default_sonos_speaker |-> Unset,
                   volume_step |-> volume_step]
    /\ \E c \in OrderVolumes :
          /\ speaker_volume = [InitVolume EXCEPT !["Kitchen"] = c]
          /\ current_volume = c
          /\ volume_item = c
    /\ \E m \in BOOLEAN : speaker_mute = [InitMute EXCEPT !["Kitchen"] = m]
    /\ menu = [n \in Speakers |-> IF n = "Kitchen" THEN 1 ELSE 0]
    /\ key_pc = "idle"
    /\ key_delta = 0
    /\ key_read = 0
    /\ key_new = 0
    /\ key_mute = FALSE
    /\ key_speaker = None
    /\ key_outcome = "none"
    /\ nkeys = 0
    /\ ui_pc = "idle"
    /\ ui_dev = None
    /\ nselect = 0
    /\ disc = [i \in 1..MaxDisc |->
                  IF i = 1 THEN Finished("found") ELSE NoThread]
    /\ tap = NoEvent
    /\ app_running = TRUE
    /\ monitor_stop_event = FALSE
    /\ hotkey_listener = FirstListener
    /\ press = NoPress
    /\ key_log = EmptyLog

NextOrder ==
    \/ KeyNext
    \/ call_toggle_mute
    \/ \E ok \in BOOLEAN : toggle_mute_read(ok)
    \/ \E ok \in BOOLEAN : toggle_mute_write(ok)

SpecOrder == InitOrder /\ [][NextOrder]_vars

(***************************************************************************)
(* SpecLifecycle: the monitor thread and the settings callbacks until the  *)
(* application quits.                                                      *)
(***************************************************************************)
NextLifecycle ==
    \/ app_running /\ MonitorNext
    \/ app_running /\ SettingsNext
    \/ quit

SpecLifecycle == Init /\ [][NextLifecycle]_vars

(***************************************************************************)
(* SpecFailures: repeated discoveries, the hotkeys and the monitor thread  *)
(* together, each of them with its failing outcomes.                       *)
(***************************************************************************)
NextFailures ==
    \/ KeyNext
    \/ MonitorNext
    \/ DiscoverNext
    \/ refresh_sonos_devices

SpecFailures == InitDiscovery /\ [][NextFailures]_vars

(***************************************************************************)
(* SpecPress: single key presses, on the hotkeys and on the media keys,    *)
(* with the hotkey listener restarted in between.                          *)
(***************************************************************************)
InitPress ==
    /\ Init
    /\ variant = "proto"
    /\ enabled
    /\ current_device = trigger_device
    /\ last_selected_speaker = None
    /\ default_sonos_speaker = Unset
    /\ volume_step = DefaultStep

NextPress ==
    \/ restart_hotkey_listener
    \/ hotkey_press
    \/ \E e \in Events, cb \in CallbackResults, a \in BOOLEAN :
          media_key_press(e, cb, a)

SpecPress == InitPress /\ [][NextPress]_vars

(***************************************************************************)
(* SpecKeyTap: the key listeners handling one event after the other; the   *)
(* controller itself is at rest.                                           *)
(***************************************************************************)
controllerVars == <<variant, enabled, trigger_device, current_device,
                    notifications, selected_sonos, sonos_devices,
                    last_selected_speaker, default_sonos_speaker, defaults,
                    volume_step, current_volume, volume_item, speaker_volume,
                    speaker_mute, menu, keyVars, nkeys, uiVars, disc,
                    app_running, monitor_stop_event, hotkey_listener, press, key_log>>

\* the global monitor calls MediaKeyTap.handle_event(event)
global_monitor_event(event, cb) ==
    /\ tap' = Handled("global", "event", event, cb, handle_event(event, cb))
    /\ UNCHANGED controllerVars

\* the local monitor calls MediaKeyTap.handle_event_local(event)
local_monitor_event(event, cb) ==
    /\ tap' = Handled("local", "event", event, cb,
                      handle_event_local(event, cb))
    /\ UNCHANGED controllerVars

\* the event tap calls VolumeKeyListener._event_callback(...)
event_tap_event(event_type, event, cb) ==
    /\ tap' = Handled("quartz", event_type, event, cb,
                      event_callback(event_type, event, cb))
    /\ UNCHANGED controllerVars

InitKeyTap ==
    /\ Init
    /\ variant = "main"
    /\ enabled
    /\ current_device = trigger_device
    /\ last_selected_speaker = None

NextKeyTap ==
    \/ \E e \in Events, cb \in CallbackResults : global_monitor_event(e, cb)
    \/ \E e \in Events, cb \in CallbackResults : local_monitor_event(e, cb)
    \/ \E t \in TapEventTypes, e \in Events, cb \in CallbackResults :
          event_tap_event(t, e, cb)

SpecKeyTap == InitKeyTap /\ [][NextKeyTap]_vars

(***************************************************************************)
(* Claims.                                                                 *)
(***************************************************************************)
\* the state other than the hotkey handler's own position and locals
programState ==
    <<settingVars, current_device, notifications, selected_sonos,
      sonos_devices, current_volume, volume_item, speaker_volume,
      speaker_mute, menu, uiVars, disc>>

\* a step in which a key event is delivered and the decision is taken
KeyEventStep == nkeys' = nkeys + 1

\* C1: for every combination of enabled, current_device, trigger_device and
\* selected_sonos, should_intercept() is truthy if and only if enabled is
\* true, current_device equals trigger_device and selected_sonos is not
\* None; the key event that evaluates it takes the intercepting branch
\* exactly then, and the evaluation changes no state variable.
C1_ShouldInterceptIff ==
    [][/\ Truthy(should_intercept) <=>
             (enabled = TRUE /\ current_device = trigger_device
                /\ selected_sonos # None)
       /\ KeyEventStep =>
             /\ (key_pc' = "change_volume") <=>
                   (enabled = TRUE /\ current_device = trigger_device
                      /\ selected_sonos # None)
             /\ UNCHANGED programState]_vars

C1_Witness ==
    /\ key_pc = "change_volume"
    /\ key_outcome = "controlling"
    /\ enabled
    /\ current_device = trigger_device
    /\ trigger_device = OtherDevice
    /\ selected_sonos # None

\* C2: the decision is taken anew from the current state at every key
\* event: an event handled while enabled is false or current_device differs
\* from trigger_device is not intercepted and writes nothing, whatever the
\* earlier events did; a speaker's volume is written only by the handler of
\* an event whose own decision was to intercept, and an event is
\* intercepted only if should_intercept() holds in the state it is handled.
C2_DecisionPerEvent ==
    [][/\ (KeyEventStep /\ (~enabled \/ current_device # trigger_device)) =>
             /\ key_pc' = "idle"
             /\ key_outcome' = "not_intercepting"
             /\ UNCHANGED speaker_volume
       /\ (KeyEventStep /\ key_pc' = "change_volume") =>
             /\ Truthy(should_intercept)
             /\ key_outcome' = "controlling"
       /\ (speaker_volume' # speaker_volume) =>
             /\ key_pc = "write"
             /\ key_outcome = "controlling"]_vars

\* an earlier event was redirected (a volume moved), the control was then
\* disabled and the next event passed through
C2_Witness ==
    /\ nkeys = 2
    /\ key_pc = "idle"
    /\ key_outcome = "not_intercepting"
    /\ ~enabled
    /\ speaker_volume # InitVolume

\* C3: every volume change_volume writes to a speaker, and hence every
\* speaker's volume, lies in 0..100, under every interleaving of the key
\* events with discovery, selection, the settings callbacks and the
\* monitor and for every volume step and sign.
C3_VolumeInRange ==
    /\ \A n \in Speakers :
          speaker_volume[n] >= MinVolume /\ speaker_volume[n] <= MaxVolume
    /\ key_pc \in {"write", "store"} =>
          key_new >= MinVolume /\ key_new <= MaxVolume

\* a write that the clamp cut down to 100
C3_Witness ==
    /\ key_pc = "store"
    /\ key_read + key_delta > MaxVolume
    /\ key_new = MaxVolume
    /\ speaker_volume[key_speaker] = MaxVolume

\* C4: for every volume c in 0..100 and every delta d in -20..20, a
\* change_volume(d) that succeeds on a speaker at c leaves the speaker at
\* c + d cut to the range 0..100: 0 if c + d < 0, 100 if c + d > 100.
C4_ClampedResult ==
    LET e == key_read + key_delta
        expected == IF e < 0 THEN 0 ELSE IF e > 100 THEN 100 ELSE e
    IN  /\ key_pc = "write" =>
              /\ key_read = speaker_volume[selected_sonos]
              /\ key_new = expected
        /\ key_pc = "store" =>
              /\ key_speaker = selected_sonos
              /\ speaker_volume[key_speaker] = expected
              /\ speaker_volume[key_speaker] >= 0
              /\ speaker_volume[key_speaker] <= 100

\* the speaker at 98 and delta +5: it ends at 100
C4_Witness ==
    /\ key_pc = "store"
    /\ key_read = 98
    /\ key_delta = 5
    /\ speaker_volume[key_speaker] = 100


(***************************************************************************)
(* Steps of a discovery thread, as seen on a pair of states.               *)
(***************************************************************************)
\* thread i's discover() comes back with no speakers
EmptyCompletion(i) ==
    /\ disc[i].pc = "discover"
    /\ disc'[i].pc = "done"
    /\ disc'[i].result = "empty"

\* thread i searches the list for the name to auto-select
PickStep(i) == disc[i].pc = "pick" /\ disc'[i].pc # "pick"

\* thread i assigns the speaker it found to selected_sonos
AssignStep(i) == disc[i].pc = "assign" /\ disc'[i].pc = "volume"

Discovered == Range(sonos_devices)
NoDiscoveryRunning == \A i \in 1..MaxDisc : disc[i].pc \in {"none", "done"}

\* C5: when a discovery completes with an empty result while a speaker was
\* selected, the selection becomes unresolved (no speaker object) and
\* should_intercept() is false from then on, so that no key event is
\* redirected to the old speaker.
C5_EmptyDiscoveryUnresolves ==
    [][\A i \in 1..MaxDisc :
          (EmptyCompletion(i) /\ selected_sonos # None) =>
             /\ selected_sonos' = None
             /\ ~(enabled' /\ current_device' = trigger_device'
                    /\ selected_sonos' # None)]_vars

\* C6: whenever a key event is redirected, so that selected_sonos is used
\* for control, a speaker with the selected speaker's name is in the
\* registry sonos_devices, the last discovery result (stated here for the
\* states in which no discovery is under way).
C6_SelectionInRegistry ==
    (key_pc \in {"change_volume", "write", "store"} /\ NoDiscoveryRunning) =>
        (selected_sonos # None /\ selected_sonos \in Discovered)

\* C7: when the auto-selection of a discovery finds both the configured
\* default speaker and the last selected speaker among the discovered
\* speakers and the two differ, it picks the default speaker and the
\* selection becomes the default speaker, not the last selected one.
C7_DefaultWins ==
    [][\A i \in 1..MaxDisc :
          /\ (/\ PickStep(i)
              /\ StrTruthy(default_sonos_speaker)
              /\ StrTruthy(last_selected_speaker)
              /\ default_sonos_speaker \in Discovered
              /\ last_selected_speaker \in Discovered
              /\ default_sonos_speaker # last_selected_speaker) =>
                 /\ disc'[i].pc = "assign"
                 /\ disc'[i].target = default_sonos_speaker
                 /\ disc'[i].target # last_selected_speaker
          /\ AssignStep(i) => selected_sonos' = disc[i].target]_vars

C7_Witness ==
    \E i \in 1..MaxDisc :
        /\ disc[i].pc = "volume"
        /\ disc[i].target = default_sonos_speaker
        /\ selected_sonos = default_sonos_speaker
        /\ last_selected_speaker \in Discovered
        /\ default_sonos_speaker \in Discovered
        /\ last_selected_speaker # default_sonos_speaker

\* C8: when the default speaker name is unset or is not among the
\* discovered speakers and the last selected speaker is among them, the
\* auto-selection picks the last selected speaker; when neither name is
\* among the discovered speakers it sets no selection.
C8_FallbackToLast ==
    [][\A i \in 1..MaxDisc :
          /\ (/\ PickStep(i)
              /\ ~StrTruthy(default_sonos_speaker)
                    \/ default_sonos_speaker \notin Discovered
              /\ StrTruthy(last_selected_speaker)
              /\ last_selected_speaker \in Discovered) =>
                 /\ disc'[i].pc = "assign"
                 /\ disc'[i].target = last_selected_speaker
          /\ (/\ PickStep(i)
              /\ default_sonos_speaker \notin Discovered
              /\ last_selected_speaker \notin Discovered) =>
                 /\ disc'[i].pc = "done"
                 /\ UNCHANGED selected_sonos]_vars

\* C9: an empty discovery result leaves last_selected_speaker, in memory
\* and in the settings store, as it is, and a discovery whose result holds
\* a speaker of that name re-selects that speaker.
C9_ReselectsLast ==
    [][\A i \in 1..MaxDisc :
          /\ EmptyCompletion(i) => UNCHANGED <<last_selected_speaker, defaults>>
          /\ (/\ PickStep(i)
              /\ StrTruthy(last_selected_speaker)
              /\ last_selected_speaker \in Discovered) =>
                 /\ disc'[i].pc = "assign"
                 /\ disc'[i].target = last_selected_speaker]_vars

\* C10: a poll tick whose audio-device query fails or times out leaves
\* current_device as it was.
C10_FailedQueryKeepsDevice ==
    [][(\E d \in Devices \cup {Unknown} : monitor_audio_device(FALSE, d)) =>
          UNCHANGED current_device]_vars

\* C11: a poll tick that observes a name other than current_device stores
\* the name and posts exactly one device-change notification; a tick that
\* observes the stored name changes neither; so a notification is posted
\* exactly in the steps in which current_device changes.
C11_NotifyOnChange ==
    [][/\ \A ok \in BOOLEAN, d \in Devices \cup {Unknown} :
             monitor_audio_device(ok, d) =>
                LET observed == IF ok THEN d ELSE Unknown
                IN  IF observed # current_device
                    THEN /\ current_device' = observed
                         /\ notifications' = notifications + 1
                    ELSE UNCHANGED <<current_device, notifications>>
       /\ \/ /\ notifications' = notifications + 1
             /\ current_device' # current_device
          \/ UNCHANGED <<current_device, notifications>>]_vars

\* two ticks have observed a changed device, the second one a device that
\* is not the startup trigger device
C11_Witness ==
    /\ notifications = 2
    /\ current_device = OtherDevice

(***************************************************************************)
(* The event a key listener handled last, read off its fields.             *)
(***************************************************************************)
TapHandled == tap.listener # "none"
\* a media-key system event that reached the handler's decoding
TapMediaKeyEvent ==
    /\ tap.event.type = NSSystemDefined
    /\ tap.event.subtype = MediaKeySubtype
    /\ tap.event_type = "event"
TapCode == tap.event.data1 \div 65536
TapIsKeyDown == (tap.event.data1 \div 256) % 256 = 10
TapIsRepeat == tap.event.data1 % 2 = 1
\* the key code is in the lookup table of the listener that handled it
TapCodeInTable ==
    IF tap.listener = "quartz" THEN TapCode \in {0, 1, 7}
    ELSE TapCode \in {16, 17, 18}
TapRecognized == TapMediaKeyEvent /\ TapIsKeyDown /\ TapCodeInTable

\* C12: a media key-down event flagged as a repeat never invokes the
\* callback, in MediaKeyTap as in VolumeKeyListener.
C12_RepeatSuppressed ==
    (TapHandled /\ TapMediaKeyEvent /\ TapIsKeyDown /\ TapIsRepeat) =>
        ~tap.invoked

\* C13: an event whose key code is not in the listener's lookup table, or
\* that is no key-down, or no media-key system event, is passed on and the
\* callback is not invoked for it, whatever the callback would have done.
C13_UnrecognizedPassedThrough ==
    (TapHandled /\ ~TapRecognized) =>
        (~tap.invoked /\ tap.key_type = None /\ tap.outcome = "passed")

\* the local monitor passed on a non-repeat media key-down with a key code
\* outside the table although the callback would have suppressed it
C13_Witness ==
    /\ tap.listener = "local"
    /\ TapMediaKeyEvent /\ TapIsKeyDown /\ ~TapIsRepeat
    /\ TapCode = 19
    /\ tap.cb = "False"
    /\ ~tap.invoked
    /\ tap.outcome = "passed"

\* C14: for a recognized, non-repeat key-down the callback is invoked, and
\* the event is suppressed if and only if the decision was to intercept
\* (the callback ran the controller and returned False); otherwise it is
\* passed on.
C14_SuppressedIffInvoked ==
    (TapHandled /\ TapRecognized /\ ~TapIsRepeat
        /\ tap.cb \in {"True", "False"}) =>
        /\ tap.invoked
        /\ tap.outcome \in {"suppressed", "passed"}
        /\ (tap.outcome = "suppressed") <=> (tap.cb = "False")

\* C15: for the same event and the same callback result, the global
\* observer and the local observer reach the same outcome.
C15_ObserversAgree ==
    tap.listener \in {"global", "local"} =>
        handle_event(tap.event, tap.cb).outcome =
            handle_event_local(tap.event, tap.cb).outcome

\* C16: when the speaker cannot be reached in change_volume or toggle_mute
\* (the read or the write raises), the handler returns to the dispatcher
\* and current_volume, the displayed volume, selected_sonos, sonos_devices,
\* enabled, trigger_device and last_selected_speaker are as before.
C16_SpeakerErrorKeepsState ==
    [][(\/ change_volume_read(FALSE)
        \/ change_volume_write(FALSE)
        \/ toggle_mute_read(FALSE)
        \/ toggle_mute_write(FALSE)
        \/ key_outcome' = "error" /\ key_outcome # "error") =>
           /\ key_pc' = "idle"
           /\ key_outcome' = "error"
           /\ UNCHANGED <<current_volume, volume_item, selected_sonos,
                          sonos_devices, enabled, trigger_device,
                          last_selected_speaker, speaker_volume,
                          speaker_mute>>]_vars

\* a first call failed, a second call was dispatched and failed at its
\* write, and the cached volume is still the speaker's
C16_Witness ==
    /\ nkeys = 2
    /\ key_pc = "idle"
    /\ key_outcome = "error"
    /\ selected_sonos = "Kitchen"
    /\ current_volume = speaker_volume["Kitchen"]
    /\ current_volume = 50

\* the last statement of select_sonos has run: the call completes
SelectCompletes == ui_pc = "sel_menu" /\ ui_pc' = "idle"

\* C17: when select_sonos(device) completes, selected_sonos is that device,
\* last_selected_speaker is its player name and so is the stored
\* 'last_selected_speaker' setting, whether or not the volume read
\* succeeded.
C17_SelectSetsSelection ==
    [][SelectCompletes =>
          /\ selected_sonos' = ui_dev
          /\ last_selected_speaker' = ui_dev
          /\ defaults'.last_selected_speaker = ui_dev]_vars

\* C18: when the volume read of select_sonos(device) fails, the displayed
\* volume is left as unknown ("Volume: --") and so does not show the value
\* of the speaker selected before.
C18_FailedReadShowsUnknown ==
    [][select_sonos_volume(FALSE) =>
          /\ volume_item' = NoVolume
          /\ ui_pc' = "sel_menu"]_vars

\* C19: when discover raises, the thread posts the "Discovery Error"
\* notification and ends, and sonos_devices and selected_sonos keep their
\* values.
C19_DiscoveryErrorKeepsRegistry ==
    [][\A i \in 1..MaxDisc :
          (\/ discover_error(i)
           \/ disc[i].pc = "discover" /\ disc'[i].result = "error") =>
             /\ disc'[i].pc = "done"
             /\ disc'[i].result = "error"
             /\ UNCHANGED <<sonos_devices, selected_sonos>>]_vars

\* a discovery failed after an earlier one had filled the registry and
\* selected a speaker, and both are still there
C19_Witness ==
    /\ disc[2].pc = "done"
    /\ disc[2].result = "error"
    /\ disc[1].result = "found"
    /\ sonos_devices = <<"Kitchen", "Office">>
    /\ selected_sonos = "Office"

\* C20: when a discovery returns without raising, sonos_devices becomes
\* exactly the speakers it returned, none left from earlier discoveries, in
\* ascending order of player name.
C20_RegistryReplaced ==
    [][\A i \in 1..MaxDisc, S \in SUBSET Speakers :
          \A devices \in Orderings(S) :
             discover_result(i, devices) =>
                /\ Range(sonos_devices') = S
                /\ Len(sonos_devices') = Cardinality(S)
                /\ \A j, k \in 1..Len(sonos_devices') :
                      j < k => NameRank[sonos_devices'[j]]
                                  < NameRank[sonos_devices'[k]]]_vars

\* C21: every user mutation of a setting is written to the settings
\* store at once: a step that changes enabled, trigger_device, volume_step
\* or last_selected_speaker leaves the stored value of that setting equal
\* to the value in memory.
C21_WrittenBack ==
    [][/\ enabled' # enabled => defaults'.enabled = enabled'
       /\ trigger_device' # trigger_device =>
             defaults'.trigger_device = trigger_device'
       /\ volume_step' # volume_step => defaults'.volume_step = volume_step'
       /\ last_selected_speaker' # last_selected_speaker =>
             defaults'.last_selected_speaker = last_selected_speaker']_vars

\* C22: in every reachable state volume_step is an integer in 1..20,
\* whatever value the settings store held at startup and after every
\* volume_step_changed_.
C22_VolumeStepInRange == volume_step \in 1..20

(***************************************************************************)
(* The recorded history.                                                   *)
(***************************************************************************)
LogEntries(op) ==
    {i \in 1..Len(key_log.events) : key_log.events[i].op = op}
\* i and j are successive entries of kind op
Successive(op, i, j) ==
    /\ i \in LogEntries(op) /\ j \in LogEntries(op) /\ i < j
    /\ \A k \in LogEntries(op) : ~(i < k /\ k < j)
IsLast(op, i) == i \in LogEntries(op) /\ \A k \in LogEntries(op) : k <= i

\* C23: toggle_mute writes the negation of the mute flag it read, and two
\* successful calls in succession leave the speaker's mute flag at the
\* value it had before the first.
C23_ToggleMuteTwice ==
    LET ev == key_log.events
    IN  /\ \A i \in LogEntries("mute") :
              /\ ev[i].value = ~ev[i].read
              /\ IsLast("mute", i) => speaker_mute[ev[i].speaker] = ev[i].value
        /\ \A i, j \in LogEntries("mute") :
              Successive("mute", i, j) => ev[j].value = ev[i].read

\* toggle_mute succeeded twice and the speaker is back at the flag the
\* first call read
C23_Witness ==
    LET ev == key_log.events
    IN  /\ Len(ev) = 4
        /\ ev[2].op = "mute" /\ ev[4].op = "mute"
        /\ ev[2].read = TRUE
        /\ speaker_mute["Kitchen"] = TRUE
        /\ key_pc = "idle"

\* C24: change_volume writes the volume to the speaker only if it changed:
\* no write recorded in the history carries the value that the same call
\* read.
C24_WriteOnlyIfChanged ==
    \A i \in LogEntries("write") :
        key_log.events[i].value # key_log.events[i].read

\* C25: the device polling loop exits cooperatively: it has ended only
\* if the stop event was set.
C25_LoopEndsOnStopSignal == ~app_running => monitor_stop_event

\* a device query, a speaker call or a discovery has failed
QueryFailed == current_device = Unknown
SpeakerFailed == key_outcome = "error"
DiscoveryFailed == \E i \in 1..MaxDisc : disc[i].result = "error"

\* C26: no single failure stops the monitor loop or key dispatch: while
\* the process runs and the stop event is not set, after a failed device
\* query, a failed speaker call or a failed discovery the monitor loop can
\* make its next tick, the key handler in progress can go on, and the
\* listener can dispatch and decide the next key event.
C26_FailuresNotFatal ==
    (app_running /\ ~monitor_stop_event
         /\ (QueryFailed \/ SpeakerFailed \/ DiscoveryFailed)) =>
        /\ ENABLED MonitorNext
        /\ key_pc # "idle" => ENABLED KeyNext
        /\ (key_pc = "idle" /\ nkeys < MaxKeys) =>
              ENABLED (\E dir \in {"up", "down"} : on_activate_volume(dir))

\* the device query, a speaker call and a discovery have all failed, the
\* listener is back at its dispatch point with key events still to come
\* and the monitor is able to post a further notification
C26_Witness ==
    /\ QueryFailed /\ SpeakerFailed /\ DiscoveryFailed
    /\ app_running /\ ~monitor_stop_event
    /\ key_pc = "idle" /\ nkeys < MaxKeys
    /\ notifications < MaxNotifications

\* C27: a tick of the monitor loop changes nothing but current_device and
\* the notifications posted: enabled, trigger_device, selected_sonos,
\* sonos_devices, last_selected_speaker, volume_step and current_volume
\* keep their values, and the intercept decision changes only if
\* current_device does.
C27_TickChangesOnlyDevice ==
    [][MonitorNext =>
          /\ UNCHANGED <<enabled, trigger_device, selected_sonos,
                         sonos_devices, last_selected_speaker, volume_step,
                         current_volume>>
          /\ current_device' = current_device =>
                intercept_decision' = intercept_decision]_vars

\* a tick has stored another device than the trigger device while a
\* speaker is selected and its volume is cached
C27_Witness ==
    /\ notifications >= 1
    /\ current_device # trigger_device
    /\ selected_sonos # None
    /\ current_volume # NoVolume

\* C28: a speaker call of change_volume or toggle_mute that fails is
\* surfaced as a notification: the step in which the handler returns from
\* a failed read or write posts one notification.
C28_FailureNotified ==
    [][(key_pc # "idle" /\ key_pc' = "idle" /\ key_outcome' = "error") =>
          notifications' = notifications + 1]_vars

C30_WriteGoesToSpeakerRead ==
    [][(key_pc = "write" /\ key_pc' = "store") =>
          speaker_volume[selected_sonos] = key_read]_vars

\* C31: an explicit selection is not overridden by discovery: once a
\* select_sonos call has completed, every step that is not part of a
\* select_sonos call leaves selected_sonos unchanged.
C31_SelectionKept ==
    [][(nselect >= 1 /\ ui_pc = "idle" /\ ui_pc' = "idle") =>
          selected_sonos' = selected_sonos]_vars

\* C32: in the main controller, whenever no select_sonos call and no
\* discovery is in progress and a speaker is selected, the selected
\* speaker's name is last_selected_speaker.
C32_SelectionIsLastSelected ==
    (variant = "main" /\ ui_pc = "idle" /\ NoDiscoveryRunning
         /\ selected_sonos # None) =>
        selected_sonos = last_selected_speaker

\* C33: the auto-selection uses the configured default speaker: in the
\* prototype the default name that discover_devices reads is the stored
\* 'default_sonos_speaker' setting, also after default_speaker_changed_.
C33_DefaultIsStoredDefault ==
    variant = "proto" =>
        default_sonos_speaker = defaults.default_sonos_speaker

\* no select_sonos call, key handler or discovery is in progress
Quiescent == ui_pc = "idle" /\ key_pc = "idle" /\ NoDiscoveryRunning

\* C34: the cached volume belongs to the selected speaker: whenever nothing
\* is in progress and a speaker is selected, current_volume is the volume
\* last read from or written to that speaker, which is the speaker's volume
\* since only this program changes it.
C34_CacheIsSelectedSpeakers ==
    (Quiescent /\ selected_sonos # None) =>
        current_volume = speaker_volume[selected_sonos]

\* C35: with several discoveries in flight the registry reflects the one
\* started last: a discovery that returns after a discovery started later
\* has stored its list does not replace that list.
C35_LatestDiscoveryWins ==
    [][\A i, j \in 1..MaxDisc :
          (i < j /\ disc[i].pc = "discover" /\ disc'[i].pc # "discover"
                 /\ disc[j].result = "found") =>
              sonos_devices' = sonos_devices]_vars

C37_CheckmarkIsSelection ==
    Quiescent =>
        /\ Cardinality({n \in DOMAIN menu : menu[n] = 1}) <= 1
        /\ \A n \in DOMAIN menu : menu[n] = 1 <=> n = selected_sonos

\* C38: the two key listeners disagree on the key code table: a code that
\* one listener maps to an action is mapped to no action by the other, which
\* passes the event on without calling the callback, and for each action
\* the code of MediaKeyTap differs from the code of VolumeKeyListener.
C38_KeyCodeTablesDisagree ==
    (TapHandled /\ TapMediaKeyEvent /\ tap.key_type # None) =>
        LET other == IF tap.listener = "quartz"
                     THEN handle_event_local(tap.event, tap.cb)
                     ELSE event_callback("event", tap.event, tap.cb)
        IN  /\ other.key_type = None
            /\ ~other.invoked
            /\ other.outcome = "passed"
            /\ \A c \in KeyCodes :
                  MediaKeyType(c) = tap.key_type =>
                      VolumeKeyType(c) # tap.key_type

\* VolumeKeyListener called the callback with 'mute' for key code 7
C38_Witness ==
    /\ tap.listener = "quartz"
    /\ tap.invoked
    /\ tap.key_type = "mute"
    /\ TapCode = 7

====
